---- MODULE Spec2Model ----
(***************************************************************************)
(* A model of the PDF question-answering backend: the chunk splitter and   *)
(* text cleaners (utils/pdf_utils.py, utils/text_preprocessing.py), the    *)
(* vector store (utils/pinecone_utils.py) over the external index and      *)
(* embedding provider, and the two request handlers of main.py.            *)
(*                                                                         *)
(* Text is a sequence of one-character strings, so that splitting,         *)
(* joining and cleaning are computed character by character as the code    *)
(* computes them.                                                          *)
(***************************************************************************)
EXTENDS Integers, Sequences, FiniteSets, TLC

VARIABLES
    splitIn,                \* arguments of a split_text_into_chunks call
    splitOut,               \* what that call returned or raised
    reduceIn,               \* arguments of a reduce_dimensions call
    reduceOut,              \* what that call returned or raised
    index,                  \* the provider's index of the configured name:
                            \* None, or its [dimension, metric]
    vectors,                \* the vectors the index holds, by identifier
    creates,                \* how many times create_index was called
    store,                  \* a PineconeVectorStore held by a direct caller
    lastCall,               \* the last store method call and its outcome
    current_pdf_processor,  \* main.py global
    current_vector_store,   \* main.py global
    pc,                     \* per request: "idle", "reading", "done"
    req,                    \* per request: what was sent
    resp,                   \* per request: the response returned
    calls,                  \* per request: external calls the handler made
    tempFiles,              \* names of the temp_<filename> files on disk
    completed               \* request ids in order of completion

chunkVars == <<splitIn, splitOut, reduceIn, reduceOut>>

providerVars == <<index, vectors, creates>>

storeVars == <<store, lastCall>>

appVars == <<current_pdf_processor, current_vector_store, pc, req, resp,
             calls, tempFiles, completed>>

(***************************************************************************)
(* Bounds of the model.                                                    *)
(***************************************************************************)
MaxTextLen == 4             \* longest enumerated input text, in characters
MaxChunkSize == 4           \* largest chunk_size and overlap enumerated
MaxDocs == 2                \* most documents (chunks) in one upsert
MaxRequests == 2            \* HTTP requests in one run of the service
MaxVectors == 4             \* most vectors given to reduce_dimensions
MaxDim == 4                 \* longest vector given to reduce_dimensions
MaxTarget == 5              \* largest target dimension enumerated

None == [none |-> TRUE]

Min(a, b) == IF a < b THEN a ELSE b

(***************************************************************************)
(* Python string and list primitives.                                      *)
(***************************************************************************)
Whitespace == {" ", "\n"}

IsSpace(c) == c \in Whitespace

RECURSIVE SplitFrom(_, _, _)
SplitFrom(t, i, cur) ==
    IF i > Len(t)
    THEN IF cur = <<>> THEN <<>> ELSE <<cur>>
    ELSE IF IsSpace(t[i])
         THEN IF cur = <<>>
              THEN SplitFrom(t, i + 1, <<>>)
              ELSE <<cur>> \o SplitFrom(t, i + 1, <<>>)
         ELSE SplitFrom(t, i + 1, Append(cur, t[i]))

\* str.split() with no argument: the maximal runs of non-whitespace.
StrSplit(t) == SplitFrom(t, 1, <<>>)

RECURSIVE StrJoin(_, _)
\* sep.join(words)
StrJoin(words, sep) ==
    IF words = <<>> THEN <<>>
    ELSE IF Len(words) = 1 THEN words[1]
    ELSE words[1] \o sep \o StrJoin(Tail(words), sep)

\* s[i:j] for 0 <= i and 0 <= j (0-based, end exclusive, clamped to the list).
Slice(s, i, j) == SubSeq(s, i + 1, Min(j, Len(s)))

RECURSIVE RangeUp(_, _, _)
RangeUp(i, stop, step) ==
    IF i >= stop THEN <<>> ELSE <<i>> \o RangeUp(i + step, stop, step)

RECURSIVE RangeDown(_, _, _)
RangeDown(i, stop, step) ==
    IF i <= stop THEN <<>> ELSE <<i>> \o RangeDown(i + step, stop, step)

\* range(start, stop, step): a zero step raises ValueError.
PyRange(start, stop, step) ==
    IF step = 0 THEN [raised |-> "ValueError", items |-> <<>>]
    ELSE IF step > 0
         THEN [raised |-> "none", items |-> RangeUp(start, stop, step)]
         ELSE [raised |-> "none", items |-> RangeDown(start, stop, step)]

(***************************************************************************)
(* PDFProcessor.split_text_into_chunks                                     *)
(***************************************************************************)
\* Mutant: the loop advances by chunk_size, ignoring the overlap.
ChunkStride_NoOverlap(chunk_size, overlap) == chunk_size

\* The step of the loop over the word list.
ChunkStride(chunk_size, overlap) == chunk_size - overlap

\* Mutant: the window is one word too long.
ChunkWindow_OffByOne(words, i, chunk_size) == Slice(words, i, i + chunk_size + 1)

\* words[i:i + chunk_size]
ChunkWindow(words, i, chunk_size) == Slice(words, i, i + chunk_size)

split_text_into_chunks(text, chunk_size, overlap) ==
    LET words == StrSplit(text)
        r == PyRange(0, Len(words), ChunkStride(chunk_size, overlap))
    IN  IF r.raised # "none"
        THEN [raised |-> r.raised, chunks |-> <<>>]
        ELSE [raised |-> "none",
              chunks |-> [j \in 1..Len(r.items) |->
                            StrJoin(ChunkWindow(words, r.items[j], chunk_size),
                                    <<" ">>)]]

(***************************************************************************)
(* Characters.                                                             *)
(***************************************************************************)
LowerLetters == {"a", "b", "s"}

UpperLetters == {"A", "B", "S"}

Digits == {"0", "1", "2", "3", "4", "5", "6", "7", "8", "9"}

\* str.lower() of one character.
Lower(c) ==
    CASE c = "A" -> "a"
      [] c = "B" -> "b"
      [] c = "S" -> "s"
      [] OTHER -> c

\* Keep the characters of t that are in `keep`: re.sub(r'[^...]', '', t).
RECURSIVE KeepChars(_, _)
KeepChars(t, keep) ==
    IF t = <<>> THEN <<>>
    ELSE (IF Head(t) \in keep THEN <<Head(t)>> ELSE <<>>)
            \o KeepChars(Tail(t), keep)

\* re.sub(r'\s+', ' ', t): every run of whitespace becomes one space.
RECURSIVE CollapseSpaces(_)
CollapseSpaces(t) ==
    IF t = <<>> THEN <<>>
    ELSE IF IsSpace(Head(t))
         THEN IF Len(t) > 1 /\ IsSpace(t[2])
              THEN CollapseSpaces(Tail(t))
              ELSE <<" ">> \o CollapseSpaces(Tail(t))
         ELSE <<Head(t)>> \o CollapseSpaces(Tail(t))

RECURSIVE LStrip(_)
LStrip(t) ==
    IF t # <<>> /\ IsSpace(Head(t)) THEN LStrip(Tail(t)) ELSE t

RECURSIVE RStrip(_)
RStrip(t) ==
    IF t # <<>> /\ IsSpace(t[Len(t)]) THEN RStrip(SubSeq(t, 1, Len(t) - 1))
    ELSE t

\* str.strip()
Strip(t) == RStrip(LStrip(t))

\* PDFProcessor.clean_text
pdf_clean_text(text) ==
    Strip(KeepChars(CollapseSpaces(text),
                    LowerLetters \cup UpperLetters \cup Digits
                        \cup Whitespace \cup {".", ","}))

(***************************************************************************)
(* TextPreprocessor.  The language model (spaCy) is external: on the       *)
(* cleaned lower-case text it is modelled as splitting at spaces, marking  *)
(* the words of StopWords as stop words, and lemmatizing a plural to its   *)
(* singular.                                                               *)
(***************************************************************************)
StopWords == {<<"a">>, <<"a", "s">>}

\* TextPreprocessor.clean_text
clean_text(text) ==
    Strip(CollapseSpaces(
        KeepChars([i \in 1..Len(text) |-> Lower(text[i])],
                  LowerLetters \cup UpperLetters \cup Whitespace)))

\* TextPreprocessor.tokenize
tokenize(text) == StrSplit(text)

\* TextPreprocessor.remove_stopwords
remove_stopwords(tokens) == SelectSeq(tokens, LAMBDA w : w \notin StopWords)

LemmaOf(w) ==
    IF Len(w) > 1 /\ w[Len(w)] = "s" THEN SubSeq(w, 1, Len(w) - 1) ELSE w

\* TextPreprocessor.lemmatize
lemmatize(tokens) == [i \in 1..Len(tokens) |-> LemmaOf(tokens[i])]

\* TextPreprocessor.preprocess_pipeline
preprocess_pipeline(text) ==
    lemmatize(remove_stopwords(tokenize(clean_text(text))))

(***************************************************************************)
(* The embedding provider and the dimension reducer.  A vector is kept as  *)
(* the text it embeds, the provider's input type and its length.           *)
(***************************************************************************)
EmbedDim == 4096            \* length of an embed-english-v2.0 vector

\* EmbeddingGenerator.generate_embeddings: one vector per text, in order.
generate_embeddings(texts) ==
    [i \in 1..Len(texts) |->
        [src |-> texts[i], input_type |-> "search_document",
         dim |-> EmbedDim, reduced |-> FALSE]]

\* DimensionReducer.reduce_dimensions on n vectors of length d: PCA refuses
\* more components than min(n, d).
reduce_dimensions(embeddings, target_dimensions) ==
    IF embeddings = <<>>
    THEN [raised |-> "IndexError", embeddings |-> <<>>]
    ELSE LET d == embeddings[1].dim
             t == Min(target_dimensions, d)
         IN  IF t > Min(Len(embeddings), d)
             THEN [raised |-> "ValueError", embeddings |-> <<>>]
             ELSE [raised |-> "none",
                   embeddings |-> [i \in 1..Len(embeddings) |->
                        [embeddings[i] EXCEPT !.dim = t, !.reduced = TRUE]]]

(***************************************************************************)
(* PineconeVectorStore.  Every call of an external service may fail: the   *)
(* parameter `fault` names the call that fails if it is reached ("none":   *)
(* no call fails).                                                         *)
(***************************************************************************)
DefaultDimension == 768

DefaultTargetDimension == 128

DefaultConfig == [dimension |-> DefaultDimension, metric |-> "cosine"]

DigitStr(d) ==
    CASE d = 0 -> "0" [] d = 1 -> "1" [] d = 2 -> "2" [] d = 3 -> "3"
      [] d = 4 -> "4" [] d = 5 -> "5" [] d = 6 -> "6" [] d = 7 -> "7"
      [] d = 8 -> "8" [] d = 9 -> "9"

RECURSIVE ToStr(_)
\* str(idx) of a non-negative integer.
ToStr(n) == IF n < 10 THEN DigitStr(n) ELSE ToStr(n \div 10) \o DigitStr(n % 10)

\* The external calls of a list reached up to and including the failing one.
RECURSIVE Reached(_, _)
Reached(steps, fault) ==
    IF steps = <<>> THEN {}
    ELSE IF Head(steps) = fault THEN {fault}
    ELSE {Head(steps)} \cup Reached(Tail(steps), fault)

Fails(steps, fault) == \E i \in 1..Len(steps) : steps[i] = fault

\* Mutant: the index is (re)created on every construction.
NeedsCreate_Always(idx) == TRUE

\* _create_index_if_not_exists: the name is not in pinecone.list_indexes().
NeedsCreate(idx) == idx = None

\* PineconeVectorStore.__init__
ConstructStore(idx, fault) ==
    LET steps == <<"pinecone.init", "pinecone.list_indexes">>
                    \o (IF NeedsCreate(idx) THEN <<"pinecone.create_index">>
                        ELSE <<>>)
                    \o <<"cohere.Client", "spacy.load">>
        reached == Reached(steps, fault)
        created == /\ "pinecone.create_index" \in reached
                   /\ fault # "pinecone.create_index"
    IN  [raised |-> IF Fails(steps, fault) THEN fault ELSE "none",
         index |-> IF created THEN DefaultConfig ELSE idx,
         created |-> created,
         attempted |-> "pinecone.create_index" \in reached,
         calls |-> reached]

\* config/pinecone.py create_or_get_index, with its default arguments.
create_or_get_index(idx, fault) ==
    LET steps == <<"pinecone.init", "pinecone.list_indexes">>
                    \o (IF NeedsCreate(idx) THEN <<"pinecone.create_index">>
                        ELSE <<>>)
        reached == Reached(steps, fault)
        created == /\ "pinecone.create_index" \in reached
                   /\ fault # "pinecone.create_index"
    IN  [raised |-> IF Fails(steps, fault) THEN fault ELSE "none",
         index |-> IF created THEN DefaultConfig ELSE idx,
         created |-> created,
         attempted |-> "pinecone.create_index" \in reached]

\* Mutant: identifiers are numbered from 1.
VectorId_OneBased(idx) == ToStr(idx + 1)

\* The identifier of the vector at position idx of enumerate(embeddings).
VectorId(idx) == ToStr(idx)

\* Mutant: an upsert replaces the contents of the index.
IndexUpsert_Replace(vecs, sent) ==
    [id \in {sent[i][1] : i \in 1..Len(sent)} |->
        sent[CHOOSE i \in 1..Len(sent) :
                /\ sent[i][1] = id
                /\ \A j \in i + 1..Len(sent) : sent[j][1] # id][2]]

\* index.upsert(vectors): insert or overwrite by identifier.
IndexUpsert(vecs, sent) ==
    [id \in DOMAIN vecs \cup {sent[i][1] : i \in 1..Len(sent)} |->
        IF \E i \in 1..Len(sent) : sent[i][1] = id
        THEN sent[CHOOSE i \in 1..Len(sent) :
                    /\ sent[i][1] = id
                    /\ \A j \in i + 1..Len(sent) : sent[j][1] # id][2]
        ELSE vecs[id]]

\* PineconeVectorStore.upsert_documents
upsert_documents(idx, vecs, documents, reduce, target_dimension, fault) ==
    LET preprocessed_docs ==
            [i \in 1..Len(documents) |->
                StrJoin(preprocess_pipeline(documents[i]), <<" ">>)]
        embeddings == generate_embeddings(preprocessed_docs)
        red == IF reduce THEN reduce_dimensions(embeddings, target_dimension)
               ELSE [raised |-> "none", embeddings |-> embeddings]
        sent == [i \in 1..Len(red.embeddings) |->
                    <<VectorId(i - 1), red.embeddings[i]>>]
        mismatch == \E i \in 1..Len(sent) : sent[i][2].dim # idx.dimension
        failed == [vectors |-> vecs, sent |-> <<>>, returned |-> None]
    IN  IF fault = "co.embed"
        THEN failed @@ [raised |-> "co.embed", calls |-> {"co.embed"}]
        ELSE IF red.raised # "none"
        THEN failed @@ [raised |-> red.raised, calls |-> {"co.embed"}]
        ELSE IF fault = "index.upsert" \/ mismatch
        THEN failed @@ [raised |-> "index.upsert",
                        calls |-> {"co.embed", "index.upsert"}]
        ELSE [raised |-> "none", vectors |-> IndexUpsert(vecs, sent),
              sent |-> sent, returned |-> Len(sent),
              calls |-> {"co.embed", "index.upsert"}]

\* Mutant: the query asks the index for one match too few.
MatchCount_OneShort(top_k, stored) == Min(top_k - 1, stored)

\* index.query(top_k=...): the number of matches the index returns.
MatchCount(top_k, stored) == Min(top_k, stored)

\* PineconeVectorStore.query_index.  `ranking` is the provider's ranking of
\* the stored identifiers by similarity to the query vector, best first.
query_index(idx, vecs, query, top_k, ranking, fault) ==
    LET preprocessed_query == StrJoin(preprocess_pipeline(query), <<" ">>)
        query_embedding == generate_embeddings(<<preprocessed_query>>)[1]
        failed == [matches |-> <<>>, embedded |-> None]
    IN  IF fault = "co.embed"
        THEN failed @@ [raised |-> "co.embed", calls |-> {"co.embed"}]
        ELSE IF fault = "index.query" \/ query_embedding.dim # idx.dimension
        THEN failed @@ [raised |-> "index.query",
                        calls |-> {"co.embed", "index.query"}]
        ELSE [raised |-> "none",
              matches |-> SubSeq(ranking, 1, MatchCount(top_k, Len(ranking))),
              embedded |-> query_embedding,
              calls |-> {"co.embed", "index.query"}]

\* PineconeVectorStore.delete_vectors
delete_vectors(vecs, vector_ids, fault) ==
    IF fault = "index.delete"
    THEN [raised |-> "index.delete", vectors |-> vecs]
    ELSE [raised |-> "none",
          vectors |-> [id \in DOMAIN vecs \ vector_ids |-> vecs[id]]]

\* PineconeVectorStore.get_index_stats
get_index_stats(idx, vecs, fault) ==
    IF fault = "index.describe_index_stats"
    THEN [raised |-> "index.describe_index_stats", stats |-> None]
    ELSE [raised |-> "none",
          stats |-> [total_vector_count |-> Cardinality(DOMAIN vecs),
                     dimension |-> idx.dimension,
                     index_fullness |-> 0]]

(***************************************************************************)
(* main.py: the two request handlers, each as the outcome of one run of    *)
(* its code on the module globals, the provider's state and the temp       *)
(* files.  `fault` names the step that fails if the run reaches it.        *)
(***************************************************************************)
DefaultChunkSize == 500

DefaultOverlap == 50

\* The methods class PineconeVectorStore defines.
PineconeVectorStoreMethods ==
    {"__init__", "_create_index_if_not_exists", "upsert_documents",
     "query_index", "delete_vectors", "get_index_stats",
     "list_available_indexes"}

\* Mutant: upload_pdf calls the upsert method the class does define.
UploadUpsertMethod_Defined == "upsert_documents"

\* The method upload_pdf calls on the store it has built.
UploadUpsertMethod == "upsert_embeddings"

RECURSIVE IdChars(_)
\* str(n) as text: its decimal digits, one character each.
IdChars(n) ==
    IF n < 10 THEN <<DigitStr(n)>>
    ELSE IdChars(n \div 10) \o <<DigitStr(n % 10)>>

\* The identifiers of the index that are spelled by one of the texts.
IdsSpelledBy(vecs, texts) ==
    {id \in DOMAIN vecs :
        \E n \in 0..99, i \in 1..Len(texts) :
            VectorId(n) = id /\ IdChars(n) = texts[i]}

\* The attributes __init__ sets on the store.
PineconeVectorStoreAttributes ==
    {"index_name", "index", "embedding_generator", "text_preprocessor",
     "dimension_reducer"}

\* What the store has from object without the class defining it: the
\* comparisons, which answer NotImplemented to any argument, and the rest,
\* none of which can be called with a list.
ObjectComparisons ==
    {"__eq__", "__ne__", "__lt__", "__le__", "__gt__", "__ge__",
     "__subclasshook__"}

ObjectAttributes ==
    {"__delattr__", "__dict__", "__dir__", "__doc__", "__format__",
     "__getattribute__", "__getstate__", "__hash__", "__init_subclass__",
     "__module__", "__new__", "__reduce__", "__reduce_ex__", "__repr__",
     "__setattr__", "__sizeof__", "__str__", "__weakref__"}

\* vector_store.<method>(text_chunks) on the store upload_pdf has built.
\* upsert_documents takes the chunks as documents; delete_vectors takes
\* them as identifiers; __init__, and __class__ which constructs another
\* store, take them as the index name, which create_index refuses unless
\* the list is empty and the default name is used; query_index fails
\* lowercasing a list; a comparison returns NotImplemented; every other
\* name the store has cannot be called with a list; a name it does not
\* have raises AttributeError.
CallStoreMethod(method, idx, vecs, chunks, fault) ==
    IF method = "upsert_documents"
    THEN upsert_documents(idx, vecs, chunks, FALSE, DefaultTargetDimension,
                          fault)
    ELSE IF method = "delete_vectors"
    THEN delete_vectors(vecs, IdsSpelledBy(vecs, chunks), fault)
            @@ [calls |-> {"index.delete"}]
    ELSE IF method \in {"__init__", "__class__"} /\ chunks = <<>>
    THEN LET c == ConstructStore(idx, fault)
         IN  [raised |-> c.raised, vectors |-> vecs, calls |-> c.calls]
    ELSE IF method \in {"__init__", "__class__"}
    THEN LET steps == <<"pinecone.init", "pinecone.list_indexes">>
         IN  IF Fails(steps, fault)
             THEN [raised |-> fault, vectors |-> vecs,
                   calls |-> Reached(steps, fault)]
             ELSE [raised |-> "TypeError", vectors |-> vecs,
                   calls |-> {"pinecone.init", "pinecone.list_indexes",
                              "pinecone.create_index"}]
    ELSE IF method = "query_index"
    THEN [raised |-> "AttributeError", vectors |-> vecs, calls |-> {}]
    ELSE IF method \in ObjectComparisons
    THEN [raised |-> "none", vectors |-> vecs, calls |-> {}]
    ELSE IF method \in PineconeVectorStoreMethods
                        \cup PineconeVectorStoreAttributes
                        \cup ObjectAttributes
    THEN [raised |-> "TypeError", vectors |-> vecs, calls |-> {}]
    ELSE [raised |-> "AttributeError", vectors |-> vecs, calls |-> {}]

UploadSteps ==
    {"open", "file.read", "buffer.write", "extract_text", "split",
     "pinecone.init", "pinecone.list_indexes", "pinecone.create_index",
     "cohere.Client", "spacy.load", "upsert_call", "co.embed", "index.upsert",
     "os.remove"}

\* Mutant: the temporary file is written before the try block is entered.
UploadGuardedSteps_AfterTempFile ==
    UploadSteps \ {"open", "file.read", "buffer.write"}

\* The steps of upload_pdf inside its try block.
UploadGuardedSteps == UploadSteps

\* What the client gets when `step` raises `exc` in upload_pdf.
UploadFailure(step, exc) ==
    IF step \in UploadGuardedSteps
    THEN [status |-> "error", message |-> "Error processing PDF",
          detail |-> exc]
    ELSE [status |-> "unhandled", message |-> "Internal Server Error",
          detail |-> exc]

\* upload_pdf up to its await: the temp file is opened for writing.
UploadOpen(fname, files, fails) ==
    IF fails
    THEN [done |-> TRUE, resp |-> UploadFailure("open", "open"),
          files |-> files]
    ELSE [done |-> FALSE, resp |-> [status |-> "pending"],
          files |-> files \cup {fname}]

\* Mutant: the store is put in the slot before the step that fails.
UploadFailureSlot_Assigned(slot) == [builtBy |-> 0]

\* The slot after an upload that failed before assigning it.
UploadFailureSlot(slot) == slot

\* upload_pdf after its await, to its return.  Extraction first reopens the
\* temp file by name, so it must still be on disk, and then parses it.
UploadOutcome(r, fname, text, fault, cpp, cvs, idx, vecs, files) ==
    LET keep == [cpp |-> UploadFailureSlot(cpp), cvs |-> UploadFailureSlot(cvs),
                 index |-> idx, created |-> FALSE, vectors |-> vecs,
                 files |-> files, calls |-> {}]
        split == split_text_into_chunks(pdf_clean_text(text),
                                        DefaultChunkSize, DefaultOverlap)
        c == ConstructStore(idx, fault)
        built == [keep EXCEPT !.index = c.index, !.created = c.created,
                              !.calls = c.calls]
        u == CallStoreMethod(UploadUpsertMethod, c.index, vecs, split.chunks,
                             fault)
        upserted == [built EXCEPT !.vectors = u.vectors,
                                  !.calls = c.calls \cup u.calls]
        assigned == [upserted EXCEPT !.cpp = [builtBy |-> r],
                                     !.cvs = [builtBy |-> r]]
    IN  IF fault \in {"file.read", "buffer.write"}
        THEN keep @@ [resp |-> UploadFailure(fault, fault)]
        ELSE IF fname \notin files
        THEN keep @@ [resp |-> UploadFailure("extract_text",
                                             "FileNotFoundError")]
        ELSE IF fault = "extract_text"
        THEN keep @@ [resp |-> UploadFailure(fault, fault)]
        ELSE IF split.raised # "none"
        THEN keep @@ [resp |-> UploadFailure("split", split.raised)]
        ELSE IF c.raised # "none"
        THEN built @@ [resp |-> UploadFailure(c.raised, c.raised)]
        ELSE IF u.raised # "none"
        THEN upserted @@ [resp |-> UploadFailure("upsert_call", u.raised)]
        ELSE IF fault = "os.remove"
        THEN assigned @@ [resp |-> UploadFailure("os.remove", "os.remove")]
        ELSE [assigned EXCEPT !.files = files \ {fname}]
                @@ [resp |-> [status |-> "success",
                              message |-> "PDF processed",
                              detail |-> Len(split.chunks)]]

QuestionSteps ==
    {"cohere.Client", "index.describe_index_stats", "co.embed", "np.dot"}

\* The steps of ask_question inside its try block.
QuestionGuardedSteps == QuestionSteps

\* Mutant: the question is embedded before the store is looked at.
QuestionGuardCalls_EmbedFirst(cvs) == {"cohere.Client", "co.embed"}

\* The external calls made before `if not current_vector_store` is decided.
QuestionGuardCalls(cvs) == {}

\* EmbeddingGenerator.similarity_search: the query is given to co.embed as
\* it was passed in.  `indices` is what argsort returns when the dot product
\* succeeds.
similarity_search(query, fault, indices) ==
    LET query_embedding == [src |-> query, input_type |-> "search_query",
                            dim |-> EmbedDim, reduced |-> FALSE]
    IN  IF fault = "co.embed"
        THEN [raised |-> fault, embedded |-> None, indices |-> <<>>]
        ELSE IF fault = "np.dot"
        THEN [raised |-> fault, embedded |-> query_embedding,
              indices |-> <<>>]
        ELSE [raised |-> "none", embedded |-> query_embedding,
              indices |-> indices]

\* Mutant: a question that finds no store puts one in the slot.
QuestionSlot_BuiltWhenMissing(slot, ok) ==
    IF slot = None THEN [builtBy |-> 0] ELSE slot

\* current_vector_store when ask_question returns: the handler declares the
\* global and never assigns it.
QuestionSlot(slot, ok) == slot

\* ask_question.  `indices` is what the similarity ranking returns when
\* the dot product of the index statistics with the query vector succeeds.
QuestionOutcome(question, cvs, fault, indices) ==
    LET steps == <<"cohere.Client", "index.describe_index_stats", "co.embed",
                   "np.dot">>
        s == similarity_search(question, fault, indices)
    IN  IF cvs = None
        THEN [resp |-> [status |-> "error", message |-> "No PDF uploaded",
                        detail |-> "none"],
              calls |-> QuestionGuardCalls(cvs),
              embedded |-> None, cvs |-> QuestionSlot(cvs, FALSE)]
        ELSE IF Fails(steps, fault)
        THEN [resp |-> IF fault \in QuestionGuardedSteps
                       THEN [status |-> "error",
                             message |-> "Error processing question",
                             detail |-> fault]
                       ELSE [status |-> "unhandled",
                             message |-> "Internal Server Error",
                             detail |-> fault],
              calls |-> QuestionGuardCalls(cvs)
                            \cup (Reached(steps, fault) \ {"np.dot"}),
              embedded |-> IF "co.embed" \in Reached(steps, fault)
                           THEN s.embedded ELSE None,
              cvs |-> QuestionSlot(cvs, FALSE)]
        ELSE [resp |-> [status |-> "success", message |-> question,
                        detail |-> s.indices],
              calls |-> QuestionGuardCalls(cvs)
                            \cup (Reached(steps, fault) \ {"np.dot"}),
              embedded |-> s.embedded, cvs |-> QuestionSlot(cvs, TRUE)]

(***************************************************************************)
(* Inputs of the chunk splitter.                                           *)
(***************************************************************************)
TextAlphabet == {"a", "b", " ", "\n"}

RECURSIVE CharSeqs(_, _)
CharSeqs(alphabet, n) ==
    IF n = 0 THEN {<<>>}
    ELSE LET shorter == CharSeqs(alphabet, n - 1)
         IN  shorter \cup {Append(s, c) : s \in shorter, c \in alphabet}

\* "a b c d e f"
ExampleText == <<"a", " ", "b", " ", "c", " ", "d", " ", "e", " ", "f">>

SplitTexts == CharSeqs(TextAlphabet, MaxTextLen) \cup {ExampleText}

NoCall == [raised |-> "pending", chunks |-> <<>>]

ChunkInit ==
    /\ splitIn \in [text : SplitTexts,
                    chunk_size : 0..MaxChunkSize,
                    overlap : 0..MaxChunkSize]
    /\ splitOut = NoCall

SplitCall ==
    /\ splitOut = NoCall
    /\ splitOut' = split_text_into_chunks(splitIn.text, splitIn.chunk_size,
                                          splitIn.overlap)
    /\ UNCHANGED <<splitIn, reduceIn, reduceOut, index, vectors, creates,
                   store, lastCall, current_pdf_processor,
                   current_vector_store, pc, req, resp, calls,
                   tempFiles, completed>>

(***************************************************************************)
(* Properties of the chunk splitter (checked under ChunkSpec).             *)
(***************************************************************************)
SplitDone == splitOut # NoCall

SplitWords == StrSplit(splitIn.text)

SplitStride == splitIn.chunk_size - splitIn.overlap

\* The number of start indices 0, s, 2s, ... below the word count.
RECURSIVE StartsBelow(_, _, _)
StartsBelow(i, count, s) ==
    IF i >= count THEN 0 ELSE 1 + StartsBelow(i + s, count, s)

\* C6: with 0 <= overlap < chunk_size the call returns, every chunk has at
\* most chunk_size words, chunk j (0-based) holds the words from word index
\* j * (chunk_size - overlap) on, and there is one chunk for every such start
\* index below the word count; "a b c d e f" with 4 and 1 gives
\* ["a b c d", "d e f"].
C6_ChunkWindows ==
    (SplitDone /\ splitIn.overlap < splitIn.chunk_size) =>
        /\ splitOut.raised = "none"
        /\ Len(splitOut.chunks) = StartsBelow(0, Len(SplitWords), SplitStride)
        /\ \A j \in 1..Len(splitOut.chunks) :
              LET cw == StrSplit(splitOut.chunks[j])
                  start == (j - 1) * SplitStride
              IN  /\ Len(cw) <= splitIn.chunk_size
                  /\ Len(cw) >= 1
                  /\ start < Len(SplitWords)
                  /\ cw = SubSeq(SplitWords, start + 1,
                                 Min(start + splitIn.chunk_size, Len(SplitWords)))
        /\ (splitIn.text = ExampleText /\ splitIn.chunk_size = 4
                /\ splitIn.overlap = 1) =>
              splitOut.chunks = << <<"a", " ", "b", " ", "c", " ", "d">>,
                                   <<"d", " ", "e", " ", "f">> >>

\* C6 witness: the example call has returned its two overlapping chunks.
C6_Witness ==
    /\ SplitDone
    /\ splitIn.text = ExampleText
    /\ splitIn.chunk_size = 4
    /\ splitIn.overlap = 1
    /\ Len(splitOut.chunks) = 2
    /\ StrSplit(splitOut.chunks[2]) = << <<"d">>, <<"e">>, <<"f">> >>

RECURSIVE StrideRejoin(_, _)
\* The first `stride` words of every chunk (the whole chunk when shorter),
\* concatenated in chunk order.
StrideRejoin(chunks, stride) ==
    IF chunks = <<>> THEN <<>>
    ELSE Slice(StrSplit(Head(chunks)), 0, stride)
            \o StrideRejoin(Tail(chunks), stride)

\* C7: with 0 <= overlap < chunk_size, the non-overlapping strides of the
\* chunks, concatenated, are exactly the word sequence of the text.
C7_StridesRebuildWords ==
    (SplitDone /\ splitIn.overlap < splitIn.chunk_size) =>
        StrideRejoin(splitOut.chunks, SplitStride) = SplitWords

\* C7 witness: a call with a real overlap returned several chunks whose
\* strides rebuild a text of at least three words.
C7_Witness ==
    /\ SplitDone
    /\ splitIn.overlap >= 1
    /\ splitIn.overlap < splitIn.chunk_size
    /\ Len(splitOut.chunks) >= 2
    /\ Len(SplitWords) >= 3
    /\ StrideRejoin(splitOut.chunks, SplitStride) = SplitWords

\* C8 (as claimed): chunk_size <= overlap always fails with an error, and
\* chunk_size > overlap always returns a list, empty when there are no words.
C8_GuardsStride ==
    SplitDone =>
        /\ (splitIn.chunk_size <= splitIn.overlap) => splitOut.raised # "none"
        /\ (splitIn.chunk_size > splitIn.overlap) =>
              /\ splitOut.raised = "none"
              /\ (SplitWords = <<>>) => (splitOut.chunks = <<>>)

vars == <<chunkVars, providerVars, storeVars, appVars>>

(***************************************************************************)
(* Initial values.                                                         *)
(***************************************************************************)
NoVectors == [id \in {} |-> None]

\* An index of the configured name may already exist at the provider, with
\* the dimension and metric it was created with.
IndexConfigs ==
    {[dimension |-> EmbedDim, metric |-> "dotproduct"],
     [dimension |-> 2, metric |-> "cosine"]}

Requests == 1..MaxRequests

NoResp == [status |-> "pending"]

NoReq == [kind |-> "none"]

NoStoreCall == [op |-> "none"]

NoReduceCall == [raised |-> "pending", embeddings |-> <<>>]

ReduceIdle == reduceIn = [n |-> 0, d |-> 0, t |-> 0]
                /\ reduceOut = NoReduceCall

SplitIdle == splitIn = [text |-> <<>>, chunk_size |-> 0, overlap |-> 0]
                /\ splitOut = NoCall

ChunkIdle == SplitIdle /\ ReduceIdle

StoreIdle == store = None /\ lastCall = NoStoreCall

AppIdle ==
    /\ current_pdf_processor = None
    /\ current_vector_store = None
    /\ pc = [r \in Requests |-> "idle"]
    /\ req = [r \in Requests |-> NoReq]
    /\ resp = [r \in Requests |-> NoResp]
    /\ calls = [r \in Requests |-> {}]
    /\ tempFiles = {}
    /\ completed = <<>>

ProviderInit ==
    /\ index \in {None} \cup IndexConfigs
    /\ vectors = NoVectors
    /\ creates = 0

(***************************************************************************)
(* The chunk splitter called on every input.                               *)
(***************************************************************************)
ChunkSpecInit ==
    /\ ChunkInit
    /\ ReduceIdle
    /\ index = None
    /\ vectors = NoVectors
    /\ creates = 0
    /\ StoreIdle
    /\ AppIdle

ChunkNext == SplitCall

ChunkSpec == ChunkSpecInit /\ [][ChunkNext]_vars

(***************************************************************************)
(* The dimension reducer called on n vectors of length d with target t,    *)
(* for every small n, d, t and for the sizes 50, 100, 1000.                *)
(***************************************************************************)
ReduceExample == [n |-> 50, d |-> 100, t |-> 1000]

ReduceInputs ==
    [n : 1..MaxVectors, d : 1..MaxDim, t : 1..MaxTarget] \cup {ReduceExample}

\* An array of n vectors of length d (embeddings.shape = (n, d)).
EmbeddingArray(n, d) ==
    [i \in 1..n |-> [src |-> <<>>, input_type |-> "search_document",
                     dim |-> d, reduced |-> FALSE]]

ReduceSpecInit ==
    /\ reduceIn \in ReduceInputs
    /\ reduceOut = NoReduceCall
    /\ SplitIdle
    /\ index = None
    /\ vectors = NoVectors
    /\ creates = 0
    /\ StoreIdle
    /\ AppIdle

ReduceCall ==
    /\ reduceOut = NoReduceCall
    /\ reduceOut' = reduce_dimensions(EmbeddingArray(reduceIn.n, reduceIn.d),
                                      reduceIn.t)
    /\ UNCHANGED <<reduceIn, splitIn, splitOut, providerVars, storeVars,
                   appVars>>

ReduceNext == ReduceCall

ReduceSpec == ReduceSpecInit /\ [][ReduceNext]_vars

ReduceDone == reduceOut # NoReduceCall

\* C12: reduce_dimensions on n >= 1 vectors of dimension d with target t
\* returns n vectors, each of dimension min(t, d); 50 vectors of dimension
\* 100 with t = 1000 come back as 50 vectors of dimension 100.
C12_ReduceReturnsClamped ==
    ReduceDone =>
        /\ reduceOut.raised = "none"
        /\ Len(reduceOut.embeddings) = reduceIn.n
        /\ \A i \in 1..Len(reduceOut.embeddings) :
              reduceOut.embeddings[i].dim = Min(reduceIn.t, reduceIn.d)

\* The part of C12 that the code does satisfy, stated for the record: a
\* call that returns returns n vectors of dimension min(t, d), and it
\* returns exactly when min(t, d) <= n.
ReduceReturnsWhenEnoughVectors ==
    ReduceDone =>
        /\ (reduceOut.raised = "none")
                <=> (Min(reduceIn.t, reduceIn.d) <= reduceIn.n)
        /\ (reduceOut.raised = "none") =>
              /\ Len(reduceOut.embeddings) = reduceIn.n
              /\ \A i \in 1..reduceIn.n :
                    reduceOut.embeddings[i].dim = Min(reduceIn.t, reduceIn.d)

(***************************************************************************)
(* The vector store driven by a direct caller, as demonstrate_vector_store *)
(* does: construct, upsert, stats, query, delete; and the embedding        *)
(* generator's similarity search called the same way.                      *)
(***************************************************************************)
StoreChunks == { <<"A", " ", "b", "s">>, <<"S", "1", " ", "!", "B">> }

RECURSIVE SeqsUpTo(_, _)
SeqsUpTo(S, n) ==
    IF n = 0 THEN {<<>>}
    ELSE LET shorter == SeqsUpTo(S, n - 1)
         IN  shorter \cup {Append(q, x) : q \in shorter, x \in S}

DocLists == SeqsUpTo(StoreChunks, MaxDocs)

\* The rankings a provider can return: the stored identifiers in any order.
RECURSIVE Rankings(_)
Rankings(S) ==
    IF S = {} THEN {<<>>}
    ELSE UNION {{<<x>> \o q : q \in Rankings(S \ {x})} : x \in S}

StoreInit == ChunkIdle /\ ProviderInit /\ StoreIdle /\ AppIdle

StoreConstructCall ==
    \E fault \in {"none", "pinecone.init", "pinecone.list_indexes",
                  "pinecone.create_index", "cohere.Client", "spacy.load"} :
        LET c == ConstructStore(index, fault)
        IN  /\ index' = c.index
            /\ creates' = creates + (IF c.created THEN 1 ELSE 0)
            /\ store' = IF c.raised = "none" THEN [built |-> TRUE] ELSE store
            /\ lastCall' = [op |-> "construct", raised |-> c.raised,
                            before |-> index, attempted |-> c.attempted]
            /\ UNCHANGED <<vectors, chunkVars, appVars>>

CreateOrGetIndexCall ==
    \E fault \in {"none", "pinecone.init", "pinecone.list_indexes",
                  "pinecone.create_index"} :
        LET c == create_or_get_index(index, fault)
        IN  /\ index' = c.index
            /\ creates' = creates + (IF c.created THEN 1 ELSE 0)
            /\ lastCall' = [op |-> "create_or_get", raised |-> c.raised,
                            before |-> index, attempted |-> c.attempted]
            /\ UNCHANGED <<vectors, store, chunkVars, appVars>>

\* The ways an upsert is called: plain (where either external call may
\* fail), or with dimension reduction to a small or to the default target.
UpsertModes ==
    {<<FALSE, DefaultTargetDimension, f>> :
        f \in {"none", "co.embed", "index.upsert"}}
    \cup {<<TRUE, 2, "none">>, <<TRUE, DefaultTargetDimension, "none">>}

UpsertDocumentsCall ==
    /\ store # None
    /\ \E documents \in DocLists, mode \in UpsertModes :
        LET u == upsert_documents(index, vectors, documents, mode[1], mode[2],
                                  mode[3])
        IN  /\ vectors' = u.vectors
            /\ lastCall' = [op |-> "upsert", raised |-> u.raised,
                            documents |-> documents, reduce |-> mode[1],
                            sent |-> u.sent, returned |-> u.returned]
    /\ UNCHANGED <<index, creates, store, chunkVars, appVars>>

\* The provider's ranking matters only to a query that reaches it.
QueryChoices ==
    {<<r, "none">> : r \in Rankings(DOMAIN vectors)}
    \cup {<<<<>>, f>> : f \in {"co.embed", "index.query"}}

QueryIndexCall ==
    /\ store # None
    /\ \E query \in StoreChunks, top_k \in 0..MaxDocs, c \in QueryChoices :
        LET q == query_index(index, vectors, query, top_k, c[1], c[2])
        IN  lastCall' = [op |-> "query", raised |-> q.raised, top_k |-> top_k,
                         matches |-> q.matches, embedded |-> q.embedded,
                         upserted |-> IF lastCall.op = "upsert"
                                         /\ lastCall.raised = "none"
                                      THEN lastCall.returned ELSE -1]
    /\ UNCHANGED <<providerVars, store, chunkVars, appVars>>

DeleteVectorsCall ==
    /\ store # None
    /\ \E ids \in SUBSET {VectorId(i) : i \in 0..MaxDocs - 1},
          fault \in {"none", "index.delete"} :
        LET d == delete_vectors(vectors, ids, fault)
        IN  /\ vectors' = d.vectors
            /\ lastCall' = [op |-> "delete", raised |-> d.raised, ids |-> ids]
    /\ UNCHANGED <<index, creates, store, chunkVars, appVars>>

GetIndexStatsCall ==
    /\ store # None
    /\ \E fault \in {"none", "index.describe_index_stats"} :
        LET g == get_index_stats(index, vectors, fault)
        IN  lastCall' = [op |-> "stats", raised |-> g.raised, stats |-> g.stats]
    /\ UNCHANGED <<providerVars, store, chunkVars, appVars>>

\* EmbeddingGenerator.similarity_search called with a question and the
\* embeddings of two documents, as ask_question calls it with
\* request.question.
SimilaritySearchCall ==
    /\ \E query \in StoreChunks, fault \in {"none", "co.embed", "np.dot"},
          indices \in {<<0, 1>>, <<1, 0>>} :
        LET s == similarity_search(query, fault, indices)
        IN  lastCall' = [op |-> "similarity_search", raised |-> s.raised,
                         query |-> query, embedded |-> s.embedded,
                         indices |-> s.indices]
    /\ UNCHANGED <<providerVars, store, chunkVars, appVars>>

StoreNext ==
    \/ StoreConstructCall
    \/ SimilaritySearchCall
    \/ CreateOrGetIndexCall
    \/ UpsertDocumentsCall
    \/ QueryIndexCall
    \/ DeleteVectorsCall
    \/ GetIndexStatsCall

StoreSpec == StoreInit /\ [][StoreNext]_vars

(***************************************************************************)
(* The service: requests handled on one event loop.  upload_pdf can be    *)
(* suspended only at its await (reading the upload); everything after it, *)
(* and all of ask_question, runs without interleaving.                    *)
(***************************************************************************)
FileNames == {"a.pdf", "b.pdf"}

UploadTexts == { <<"A", " ", "b", "s", "!", "\n", "S">> }

Questions == { <<"A", " ", "b", "s">> }

\* Every step of upload_pdf after its await that can raise.
UploadFaults ==
    {"none", "file.read", "buffer.write", "extract_text", "pinecone.init",
     "pinecone.list_indexes", "pinecone.create_index", "cohere.Client",
     "spacy.load", "co.embed", "index.upsert", "os.remove"}

QuestionFaults == {"none"} \cup QuestionSteps

AnswerIndices == {<<>>, <<1, 0>>}

Init == ChunkIdle /\ ProviderInit /\ StoreIdle /\ AppIdle

\* Requests are numbered in the order they arrive.
Arrives(r) == pc[r] = "idle" /\ \A q \in 1..r - 1 : pc[q] # "idle"

UploadStart(r) ==
    /\ Arrives(r)
    /\ \E fname \in FileNames, text \in UploadTexts, fails \in BOOLEAN :
        LET o == UploadOpen(fname, tempFiles, fails)
        IN  /\ req' = [req EXCEPT ![r] =
                        [kind |-> "upload", filename |-> fname, text |-> text,
                         question |-> <<>>, slot |-> current_vector_store,
                         fault |-> IF fails THEN "open" ELSE "none",
                         inflight |-> {q \in Requests : pc[q] = "reading"}]]
            /\ tempFiles' = o.files
            /\ pc' = [pc EXCEPT ![r] = IF o.done THEN "done" ELSE "reading"]
            /\ resp' = [resp EXCEPT ![r] = o.resp]
            /\ completed' = IF o.done THEN Append(completed, r) ELSE completed
    /\ UNCHANGED <<current_pdf_processor, current_vector_store, calls,
                   providerVars, storeVars, chunkVars>>

UploadResume(r) ==
    /\ pc[r] = "reading"
    /\ \E fault \in UploadFaults :
        LET o == UploadOutcome(r, req[r].filename, req[r].text, fault,
                               current_pdf_processor, current_vector_store,
                               index, vectors, tempFiles)
        IN  /\ current_pdf_processor' = o.cpp
            /\ current_vector_store' = o.cvs
            /\ index' = o.index
            /\ creates' = creates + (IF o.created THEN 1 ELSE 0)
            /\ vectors' = o.vectors
            /\ tempFiles' = o.files
            /\ resp' = [resp EXCEPT ![r] = o.resp]
            /\ calls' = [calls EXCEPT ![r] = o.calls]
            /\ req' = [req EXCEPT ![r].slot = current_vector_store,
                                  ![r].fault = fault]
    /\ pc' = [pc EXCEPT ![r] = "done"]
    /\ completed' = Append(completed, r)
    /\ UNCHANGED <<storeVars, chunkVars>>

AskQuestion(r) ==
    /\ Arrives(r)
    /\ \E question \in Questions, fault \in QuestionFaults,
          indices \in AnswerIndices :
        LET o == QuestionOutcome(question, current_vector_store, fault, indices)
        IN  /\ resp' = [resp EXCEPT ![r] = o.resp]
            /\ calls' = [calls EXCEPT ![r] = o.calls]
            /\ current_vector_store' = o.cvs
            /\ req' = [req EXCEPT ![r] =
                        [kind |-> "question", filename |-> "", text |-> <<>>,
                         question |-> question, slot |-> current_vector_store,
                         fault |-> fault, inflight |-> {}]]
    /\ pc' = [pc EXCEPT ![r] = "done"]
    /\ completed' = Append(completed, r)
    /\ UNCHANGED <<current_pdf_processor, tempFiles, providerVars, storeVars,
                   chunkVars>>

Next ==
    \E r \in Requests :
        \/ UploadStart(r)
        \/ UploadResume(r)
        \/ AskQuestion(r)

Spec == Init /\ [][Next]_vars

(***************************************************************************)
(* Properties of the request handlers.                                     *)
(***************************************************************************)
Done(r) == pc[r] = "done"

IsUpload(r) == req[r].kind = "upload"

IsQuestion(r) == req[r].kind = "question"

LastCompleted(r) == completed # <<>> /\ completed[Len(completed)] = r

\* q completed right after r: no other request completed in between.
CompletedNext(r, q) ==
    \E i \in 1..Len(completed) - 1 : completed[i] = r /\ completed[i + 1] = q

NoDocument(q) == resp[q].status = "error" /\ resp[q].message = "No PDF uploaded"

\* C1: a question handled while the store slot is empty answers "error"
\* and the handler calls neither the embedding provider nor the index.
C1_EmptyQuestionRejected ==
    \A r \in Requests :
        (Done(r) /\ IsQuestion(r) /\ req[r].slot = None) =>
            /\ resp[r].status = "error"
            /\ calls[r] = {}

\* C1 witness: a question was asked and rejected before any upload
\* succeeded, whatever step the provider would have failed at.
C1_Witness ==
    \E r \in Requests :
        /\ Done(r) /\ IsQuestion(r) /\ req[r].slot = None
        /\ req[r].fault = "none"
        /\ NoDocument(r)

\* Nothing the upload needs fails: no step is made to fail and the index
\* takes vectors of the provider's length.
UploadCanSucceed(r) ==
    /\ Done(r) /\ IsUpload(r)
    /\ req[r].fault = "none"
    /\ index # None
    /\ index.dimension = EmbedDim

\* C2 (as claimed): an upload in which extraction, cleaning, chunking, store
\* construction and the upsert can all succeed answers "success", leaves its
\* own store in the slot, and a question that follows it is not rejected
\* with the no-document error.
C2_UploadInstallsStore ==
    \A r \in Requests :
        UploadCanSucceed(r) =>
            /\ resp[r].status = "success"
            /\ LastCompleted(r) => current_vector_store = [builtBy |-> r]
            /\ \A q \in Requests :
                  (CompletedNext(r, q) /\ IsQuestion(q)) => ~NoDocument(q)

FailedUpload(r) == Done(r) /\ IsUpload(r) /\ resp[r].status # "success"

\* C3: a failed upload answers "error" and leaves the service
\* with no current document, whatever it held before: the next question is
\* rejected with the no-document error.
C3_FailedUploadEmpties ==
    \A r \in Requests :
        FailedUpload(r) =>
            /\ resp[r].status = "error"
            /\ LastCompleted(r) => current_vector_store = None
            /\ \A q \in Requests :
                  (CompletedNext(r, q) /\ IsQuestion(q)) => NoDocument(q)

\* C3 witness: an upload failed at extraction, the slot is empty, and the
\* question after it was rejected with the no-document error.
C3_Witness ==
    \E r, q \in Requests :
        /\ FailedUpload(r) /\ req[r].fault = "extract_text"
        /\ CompletedNext(r, q) /\ IsQuestion(q)
        /\ NoDocument(q)
        /\ LastCompleted(q)
        /\ current_vector_store = None

\* C4: every response of either handler has status "success" or "error",
\* whichever step failed: no exception leaves a handler.
C4_NoEscapingException ==
    \A r \in Requests :
        Done(r) => resp[r].status \in {"success", "error"}

\* C4 witness: one upload failed writing its temp file and another got as
\* far as calling the store, which raised; both were answered "error".
C4_Witness ==
    \E r, q \in Requests :
        /\ Done(r) /\ IsUpload(r) /\ req[r].fault = "buffer.write"
        /\ resp[r].status = "error"
        /\ Done(q) /\ IsUpload(q) /\ req[q].fault = "none"
        /\ resp[q].status = "error" /\ resp[q].detail = "AttributeError"

\* C5 (as claimed): of two uploads in flight together that can both
\* succeed, the one that completes last leaves its store in the slot.
C5_LastUploadWins ==
    \A r, q \in Requests :
        (/\ r # q
         /\ UploadCanSucceed(r) /\ UploadCanSucceed(q)
         /\ r \in req[q].inflight
         /\ req[r].filename # req[q].filename
         /\ LastCompleted(r) \/ LastCompleted(q)) =>
            /\ resp[r].status = "success"
            /\ resp[q].status = "success"
            /\ current_vector_store = [builtBy |-> completed[Len(completed)]]

(***************************************************************************)
(* Properties of the vector store (checked under StoreSpec).               *)
(***************************************************************************)
\* The decimal identifiers, written out.
IdText == <<"0", "1", "2", "3", "4", "5", "6", "7", "8", "9">>

\* What preprocessing makes of the two chunk texts: "A bs" loses its stop
\* word and its plural, "S1 !B" its digit and punctuation.
PreprocessedText(doc) ==
    IF doc = <<"A", " ", "b", "s">> THEN <<"b">> ELSE <<"s", " ", "b">>

UpsertReturned == lastCall.op = "upsert" /\ lastCall.raised = "none"

\* C9: an upsert of n chunks that returns has sent the index exactly n
\* vectors, identified "0" .. "n-1" in chunk order, the i-th being the
\* embedding of the preprocessed i-th chunk, and returns n.
C9_UpsertSendsNumberedVectors ==
    UpsertReturned =>
        LET n == Len(lastCall.documents)
        IN  /\ lastCall.returned = n
            /\ Len(lastCall.sent) = n
            /\ \A i \in 1..n :
                  /\ lastCall.sent[i][1] = IdText[i]
                  /\ lastCall.sent[i][2].src
                        = PreprocessedText(lastCall.documents[i])
                  /\ lastCall.sent[i][2].input_type = "search_document"
                  /\ vectors[IdText[i]] = lastCall.sent[i][2]

\* C9 witness: two different chunks were upserted and the call returned 2.
C9_Witness ==
    /\ UpsertReturned
    /\ Len(lastCall.documents) = 2
    /\ lastCall.documents[1] # lastCall.documents[2]
    /\ lastCall.returned = 2
    /\ ~lastCall.reduce

\* A query with top_k = n that returned, issued right after an upsert of n
\* chunks returned.
QueriedAfterUpsert ==
    /\ lastCall.op = "query" /\ lastCall.raised = "none"
    /\ lastCall.upserted >= 0
    /\ lastCall.top_k = lastCall.upserted

AllIdsOnce ==
    /\ Len(lastCall.matches) = lastCall.top_k
    /\ {lastCall.matches[i] : i \in 1..Len(lastCall.matches)}
            = {IdText[i] : i \in 1..lastCall.top_k}

\* C10 (as claimed): after an upsert of n chunks, whatever was upserted
\* before, an immediate query with top_k = n returns each of the
\* identifiers 0 .. n-1 exactly once.
C10_QueryReturnsAllIds == QueriedAfterUpsert => AllIdsOnce

\* C10 (amended): the same, provided the index holds no vector of an earlier,
\* longer document, that is no identifier beyond n-1.
C10_QueryReturnsAllIdsWhenNoStale ==
    (QueriedAfterUpsert /\ Cardinality(DOMAIN vectors) = lastCall.top_k)
        => AllIdsOnce

\* C10 witness: a two-chunk document was upserted into an index holding
\* nothing else, and the query with top_k = 2 returned both identifiers.
C10_Witness ==
    /\ QueriedAfterUpsert
    /\ lastCall.top_k = 2
    /\ Cardinality(DOMAIN vectors) = 2
    /\ Len(lastCall.matches) = 2
    /\ lastCall.matches[1] # lastCall.matches[2]

\* The index holds vector v under the identifier of position i (from 1).
Holds(vecs, i, v) == IdText[i] \in DOMAIN vecs /\ vecs[IdText[i]] = v

\* An upsert of fewer chunks returns right after an upsert of more chunks
\* returned: nothing was deleted in between.
ShorterUpsertStep ==
    /\ UpsertReturned
    /\ lastCall'.op = "upsert" /\ lastCall'.raised = "none"
    /\ Len(lastCall'.sent) < Len(lastCall.sent)

\* C13: after a document of n chunks is upserted and then one of m < n
\* chunks, with no delete in between, the index holds the second
\* document's vectors under identifiers 0 .. m-1 and still holds the first
\* document's vectors under identifiers m .. n-1.
C13_ShorterUpsertLeavesStale ==
    [][ShorterUpsertStep =>
        LET n == Len(lastCall.sent)
            m == Len(lastCall'.sent)
        IN  /\ \A i \in 1..m : Holds(vectors', i, lastCall'.sent[i][2])
            /\ \A i \in m + 1..n : Holds(vectors', i, lastCall.sent[i][2])
            /\ \A i \in 1..n : lastCall.sent[i][1] = IdText[i]
       ]_vars

\* C13 witness: a one-chunk document was upserted last, its vector is under
\* identifier 0, and identifier 1 still holds the vector of the second
\* chunk of an earlier two-chunk document, embedded from another text.
C13_Witness ==
    /\ UpsertReturned
    /\ Len(lastCall.sent) = 1
    /\ DOMAIN vectors = {"0", "1"}
    /\ vectors["0"] = lastCall.sent[1][2]
    /\ vectors["1"].src # lastCall.sent[1][2].src

\* The last call was one that looks the index up: a construction of the
\* store or create_or_get_index.
IndexLookedUp == lastCall.op \in {"construct", "create_or_get"}

\* C14: however often the store is constructed, the index is created at
\* most once: create is called only when the name is absent from the
\* provider's list, an index that exists keeps its dimension and metric,
\* and no call of the store removes the index.
C14_IndexCreatedAtMostOnce ==
    [][/\ creates' <= 1
       /\ (creates' # creates) => (index = None /\ creates' = creates + 1)
       /\ (IndexLookedUp' /\ lastCall'.attempted) => lastCall'.before = None
       /\ (index # None) => (index' = index)
      ]_vars

\* C14 witness: the index was created by this program with the default
\* configuration, and the store was then constructed again, successfully
\* and without a create.
C14_Witness ==
    /\ creates = 1
    /\ index = DefaultConfig
    /\ lastCall.op = "construct" /\ lastCall.raised = "none"
    /\ lastCall.before = DefaultConfig
    /\ ~lastCall.attempted

(***************************************************************************)
(* Frame properties of the handlers (checked under Spec).                  *)
(***************************************************************************)
\* This step is request r handled by ask_question, from arrival to return.
QuestionStep(r) ==
    pc[r] = "idle" /\ pc'[r] = "done" /\ req'[r].kind = "question"

\* Only questions have arrived so far, and all have been answered.
OnlyQuestions ==
    /\ IsQuestion(1)
    /\ \A r \in Requests : pc[r] # "idle" => (Done(r) /\ IsQuestion(r))

\* C15: a question request, whether it answers or fails, changes neither
\* the current store slot nor the vectors in the index; so after any
\* number of questions the slot holds what it held when the first of them
\* arrived and the index holds what it held.
C15_QuestionChangesNothing ==
    [][/\ \A r \in Requests :
            QuestionStep(r) =>
                /\ current_vector_store' = current_vector_store
                /\ current_pdf_processor' = current_pdf_processor
                /\ vectors' = vectors
                /\ index' = index
       /\ OnlyQuestions' =>
            /\ current_vector_store' = req'[1].slot
            /\ vectors' = NoVectors
      ]_vars

\* C15 witness: an upload created the index and failed, the question after
\* it was answered, and the slot and the index are as the question found
\* them.
C15_Witness ==
    \E r, q \in Requests :
        /\ Done(r) /\ IsUpload(r) /\ creates = 1
        /\ CompletedNext(r, q) /\ IsQuestion(q) /\ LastCompleted(q)
        /\ resp[q].status = "error"
        /\ current_vector_store = req[q].slot
        /\ index = DefaultConfig
        /\ vectors = NoVectors

\* This step is upload_pdf returning its response to request r.
UploadReturns(r) ==
    pc[r] # "done" /\ pc'[r] = "done" /\ req'[r].kind = "upload"

SlotsUnchanged ==
    /\ current_pdf_processor' = current_pdf_processor
    /\ current_vector_store' = current_vector_store

\* C16: an upload that answers "error" leaves current_pdf_processor and
\* current_vector_store as they were; the two slots are replaced only by
\* an upload that answers "success".
C16_ErrorUploadKeepsSlots ==
    [][/\ \A r \in Requests :
            (UploadReturns(r) /\ resp'[r].status = "error") => SlotsUnchanged
       /\ ~SlotsUnchanged =>
            \E r \in Requests :
                UploadReturns(r) /\ resp'[r].status = "success"
      ]_vars

\* C16 witness: an upload got as far as calling the store, with every
\* external call succeeding, answered "error", and both slots still hold
\* what they held when it arrived.
C16_Witness ==
    \E r \in Requests :
        /\ LastCompleted(r) /\ IsUpload(r)
        /\ resp[r].status = "error" /\ resp[r].detail = "AttributeError"
        /\ req[r].fault = "none"
        /\ current_vector_store = req[r].slot
        /\ current_pdf_processor = req[r].slot

\* Request r is an upload that created its temp file and has returned, and
\* no upload still in flight is writing a temp file of the same name.
WroteAndReturned(r) ==
    /\ Done(r) /\ IsUpload(r) /\ req[r].fault # "open"
    /\ \A q \in Requests :
          (pc[q] = "reading") => req[q].filename # req[r].filename

\* C17: once an upload has returned its response, success or error, the
\* temporary file temp_<filename> it wrote no longer exists.
C17_TempFileRemoved ==
    \A r \in Requests :
        WroteAndReturned(r) => req[r].filename \notin tempFiles


(***************************************************************************)
(* The question flow against the upload flow (checked under StoreSpec).    *)
(***************************************************************************)
\* The string a chunk of this text is embedded from when it is upserted.
ChunkEmbeddedFrom(text) ==
    upsert_documents([dimension |-> EmbedDim, metric |-> "cosine"], NoVectors,
                     <<text>>, FALSE, DefaultTargetDimension,
                     "none").sent[1][2].src

\* similarity_search was called with a question, as ask_question calls it,
\* and co.embed returned the question's vector.
QuestionEmbedded ==
    lastCall.op = "similarity_search" /\ lastCall.embedded # None

\* C11: a question that was embedded was embedded from the string its text
\* is turned into by the preprocessing pipeline (clean, tokenize, remove
\* stopwords, lemmatize) applied to a chunk of the same text before
\* embedding.
C11_QuestionEmbeddedAsChunk ==
    QuestionEmbedded =>
        lastCall.embedded.src = ChunkEmbeddedFrom(lastCall.query)

====
